---- MODULE Spec2Model ----
(***************************************************************************)
(* WinApp Audio Studio: the Qt MainWindow (src/src/ui_qt/main_window.py)   *)
(* and the AudioPlayer (src/src/core/audio_player.py) as a state machine.  *)
(*                                                                         *)
(* Threads: the UI thread (Qt slots, each handler one atomic action), the  *)
(* transcription worker (one action per statement that touches shared      *)
(* state), the player's progress thread, and the pygame mixer as the       *)
(* environment.                                                            *)
(*                                                                         *)
(* Time is an integer number of units, UnitsPerMs units to the             *)
(* millisecond, so that round(x, 3) is a real rounding and int(x) a real   *)
(* truncation.                                                             *)
(***************************************************************************)
EXTENDS Integers, Sequences, FiniteSets, TLC

\* ------------------------------------------------------------------ time

UnitsPerMs == 1 + 2
UnitsPerSec == 1000 * UnitsPerMs
Sec(n) == n * UnitsPerSec
\* int(x) of a non-negative float: truncation to whole seconds
IntSec(t) == t \div UnitsPerSec
\* round(x, 3): to the nearest millisecond (UnitsPerMs is odd: no ties)
Round3(t) == ((2 * t + UnitsPerMs) \div (2 * UnitsPerMs)) * UnitsPerMs
\* the 0.3 s tail tolerance of both end-of-track tests
TailTolerance == (3 * UnitsPerSec) \div 10

\* n tenths of a second
Tenths(n) == (n * UnitsPerSec) \div 10

Min(a, b) == IF a <= b THEN a ELSE b
Max(a, b) == IF a >= b THEN a ELSE b

\* ---------------------------------------------------------------- bounds

\* track switches explored (the generation counter itself is unbounded)
MaxGeneration == 2
\* seconds the mixer advances per environment step
PosStep == 1
\* the observation logs count up to this
MaxCount == 2
\* captions in one ASR result
MaxResult == 3

\* ------------------------------------------------------------- the world

Tracks == {"A", "B", "S"}
NoPath == "None"
Absent == 0 - 1

\* len(audio) / 1000.0 of each file, in seconds
DurationSec(p) == IF p = "A" THEN 3 ELSE IF p = "B" THEN 2 ELSE 120

\* what the speaker of a track says: the ASR text is a function of the audio
TrackText(p) == IF p = "A" THEN "a" ELSE IF p = "B" THEN "b" ELSE "s"

Subtitle(i, s, e, t) == [index |-> i, start_time |-> s, end_time |-> e, text |-> t]
\* None where a Subtitle is expected
NoSubtitle == Subtitle(Absent, Absent, Absent, "")

\* the play() outcomes: the file is gone or unsupported (load_file False), the
\* mixer or the converter fails after load_file, or playback starts
PlayOutcomes == {"ok", "missing", "decode_fail"}

\* ------------------------------------------------------- pure functions

RECURSIVE offset_from(_, _, _)
offset_from(subtitles, offset, i) ==
    IF i > Len(subtitles) THEN <<>>
    ELSE IF subtitles[i].text = ""
         THEN offset_from(subtitles, offset, i + 1)
         ELSE <<Subtitle(i, subtitles[i].start_time + offset,
                         subtitles[i].end_time + offset, subtitles[i].text)>>
              \o offset_from(subtitles, offset, i + 1)

\* _offset_subtitles: drop empty text, shift by the window start (seconds)
offset_subtitles(subtitles, offset) == offset_from(subtitles, Sec(offset), 1)

SortKeyLeq(a, b) ==
    \/ a.start_time < b.start_time
    \/ a.start_time = b.start_time /\ a.end_time <= b.end_time

\* insert x after every element whose key is <= x's: a stable insertion
RECURSIVE insert_sorted(_, _)
insert_sorted(sorted, x) ==
    IF sorted = <<>> THEN <<x>>
    ELSE IF SortKeyLeq(Head(sorted), x)
         THEN <<Head(sorted)>> \o insert_sorted(Tail(sorted), x)
         ELSE <<x>> \o sorted

\* list.sort(key=(start_time, end_time)): stable
RECURSIVE stable_sort(_)
stable_sort(subs) ==
    IF subs = <<>> THEN <<>>
    ELSE insert_sorted(stable_sort(SubSeq(subs, 1, Len(subs) - 1)), subs[Len(subs)])

dedup_key(s) == <<Round3(s.start_time), Round3(s.end_time), s.text>>

\* the dedup pass: drop an entry whose key repeats the last kept key
RECURSIVE dedup_from(_, _, _)
dedup_from(sorted, i, last_key) ==
    IF i > Len(sorted) THEN <<>>
    ELSE IF dedup_key(sorted[i]) = last_key
         THEN dedup_from(sorted, i + 1, last_key)
         ELSE <<sorted[i]>> \o dedup_from(sorted, i + 1, dedup_key(sorted[i]))

NoKey == <<Absent, Absent, "">>

\* the captions an upgrade ("base") merge keeps: those wholly before the
\* window start or wholly after the window end (both in seconds)
kept_outside(current, start_seconds, end_seconds) ==
    SelectSeq(current, LAMBDA s : \/ s.end_time < Sec(start_seconds)
                                  \/ s.start_time > Sec(end_seconds))

\* _merge_subtitles without merged.sort: the dedup pass on the joined list
merge_without_sort(current, new_subs, start_seconds, end_seconds, model) ==
    LET joined == IF model = "base"
                  THEN kept_outside(current, start_seconds, end_seconds) \o new_subs
                  ELSE current \o new_subs
    IN dedup_from(joined, 1, NoKey)

\* _merge_subtitles on the timeline it read
merge_lists(current, new_subs, start_seconds, end_seconds, model) ==
    LET joined == IF model = "base"
                  THEN kept_outside(current, start_seconds, end_seconds) \o new_subs
                  ELSE current \o new_subs
    IN dedup_from(stable_sort(joined), 1, NoKey)

\* find_subtitle_by_time, scanning from the end: the last caption that holds
\* current_time
RECURSIVE find_last_from(_, _, _)
find_last_from(subtitles, current_time, i) ==
    IF i < 1 THEN NoSubtitle
    ELSE IF subtitles[i].start_time <= current_time
            /\ current_time <= subtitles[i].end_time
         THEN subtitles[i]
         ELSE find_last_from(subtitles, current_time, i - 1)

find_last_subtitle_by_time(subtitles, current_time) ==
    find_last_from(subtitles, current_time, Len(subtitles))

RECURSIVE find_from(_, _, _)
find_from(subtitles, current_time, i) ==
    IF i > Len(subtitles) THEN NoSubtitle
    ELSE IF subtitles[i].start_time <= current_time
            /\ current_time <= subtitles[i].end_time
         THEN subtitles[i]
         ELSE find_from(subtitles, current_time, i + 1)

\* SubtitleParser.find_subtitle_by_time
find_subtitle_by_time(subtitles, current_time) == find_from(subtitles, current_time, 1)

RECURSIVE max_end(_)
max_end(subs) ==
    IF subs = <<>> THEN 0 ELSE Max(Head(subs).end_time, max_end(Tail(subs)))

\* ---------------------------------------------------------------- state

VARIABLES
    \* MainWindow
    config,                 \* the Config values the scheduler reads
    current_generation,     \* _current_generation
    was_playing_track,      \* _was_playing_track
    handling_auto_next,     \* _handling_auto_next
    closing_ui,             \* _closing_ui
    loading_folder,         \* _loading_folder
    transcribing_paths,     \* _transcribing_paths
    inflight,               \* _inflight: keys <<path, start, model, generation>>
    tiny_next_start,        \* _tiny_next_start: path -> seconds, Absent if no entry
    base_next_start,        \* _base_next_start
    urgent_queue,           \* _urgent_queue
    bg_queue,               \* _bg_queue
    worker_stop,            \* _worker_stop
    end_signal_pending,     \* playback_end_signal emissions not yet delivered
    \* AudioPlayer
    playlist,
    current_file,
    current_index,
    current_duration,
    current_subtitles,
    subtitle_cache,         \* _subtitle_cache: path -> [present, subs]
    is_playing,
    is_paused,
    last_subtitle_valid,    \* _last_subtitle_valid
    last_subtitle,          \* _last_subtitle
    subtitle_notified,      \* on_subtitle_changed was called since the last play()
    progress_pc,            \* _update_progress: "dead", "loop", "set_ended", "notify"
    not_busy_ticks,         \* its local not_busy_ticks
    \* pygame.mixer.music
    mixer_busy,
    mixer_pos,              \* get_pos() in units, Absent (-1) when not playing
    \* the _transcription_worker thread and its locals
    worker_pc,
    job,
    result_subs,
    merged,
    notified,               \* the transcribe_done_signal emitted for the job held:
                            \* "none", "done" or "error"
    preview_wav,            \* the temporary file of the job held while it exists
    \* observation logs, of the current generation's windows only (a window's
    \* key holds its generation, and no job of a past generation is queued again)
    requested,              \* the windows put on a queue
    runs,                   \* how often the worker extracted each window
    silent,                 \* the windows whose ASR call returned no caption
    end_advances            \* tracks _handle_playback_end started since the user
                            \* last started one or the mixer last ran out

uiVars == <<config, current_generation, was_playing_track, handling_auto_next,
            closing_ui, loading_folder, transcribing_paths, inflight,
            tiny_next_start, base_next_start, urgent_queue, bg_queue, worker_stop,
            playlist, current_file, current_index, current_duration,
            current_subtitles, subtitle_cache, is_playing, is_paused,
            last_subtitle_valid, last_subtitle, subtitle_notified, progress_pc,
            mixer_busy, mixer_pos,
            end_advances,
            requested, runs, silent>>
workerVars == <<worker_pc, job, result_subs, merged, notified, preview_wav>>
vars == <<uiVars, workerVars, end_signal_pending, not_busy_ticks>>

\* The state the handlers of the UI thread read and write, as one record, so
\* that a handler calling another is one operator applied to another's result.
Cur ==
    [config |-> config,
     current_generation |-> current_generation,
     was_playing_track |-> was_playing_track,
     handling_auto_next |-> handling_auto_next,
     closing_ui |-> closing_ui,
     loading_folder |-> loading_folder,
     transcribing_paths |-> transcribing_paths,
     inflight |-> inflight,
     tiny_next_start |-> tiny_next_start,
     base_next_start |-> base_next_start,
     urgent_queue |-> urgent_queue,
     bg_queue |-> bg_queue,
     worker_stop |-> worker_stop,
     playlist |-> playlist,
     current_file |-> current_file,
     current_index |-> current_index,
     current_duration |-> current_duration,
     current_subtitles |-> current_subtitles,
     subtitle_cache |-> subtitle_cache,
     is_playing |-> is_playing,
     is_paused |-> is_paused,
     last_subtitle_valid |-> last_subtitle_valid,
     last_subtitle |-> last_subtitle,
     subtitle_notified |-> subtitle_notified,
     progress_pc |-> progress_pc,
     mixer_busy |-> mixer_busy,
     mixer_pos |-> mixer_pos,
     end_advances |-> end_advances,
     requested |-> requested,
     runs |-> runs,
     silent |-> silent]

Put(s) ==
    /\ config' = s.config
    /\ current_generation' = s.current_generation
    /\ was_playing_track' = s.was_playing_track
    /\ handling_auto_next' = s.handling_auto_next
    /\ closing_ui' = s.closing_ui
    /\ loading_folder' = s.loading_folder
    /\ transcribing_paths' = s.transcribing_paths
    /\ inflight' = s.inflight
    /\ tiny_next_start' = s.tiny_next_start
    /\ base_next_start' = s.base_next_start
    /\ urgent_queue' = s.urgent_queue
    /\ bg_queue' = s.bg_queue
    /\ worker_stop' = s.worker_stop
    /\ playlist' = s.playlist
    /\ current_file' = s.current_file
    /\ current_index' = s.current_index
    /\ current_duration' = s.current_duration
    /\ current_subtitles' = s.current_subtitles
    /\ subtitle_cache' = s.subtitle_cache
    /\ is_playing' = s.is_playing
    /\ is_paused' = s.is_paused
    /\ last_subtitle_valid' = s.last_subtitle_valid
    /\ last_subtitle' = s.last_subtitle
    /\ subtitle_notified' = s.subtitle_notified
    /\ progress_pc' = s.progress_pc
    /\ mixer_busy' = s.mixer_busy
    /\ mixer_pos' = s.mixer_pos
    /\ end_advances' = s.end_advances
    /\ requested' = s.requested
    /\ runs' = s.runs
    /\ silent' = s.silent

NoEntry == [present |-> FALSE, subs |-> <<>>]
\* None, as _dequeue_job returns it and closeEvent queues it
NoJob == [path |-> NoPath, start |-> 0, seconds |-> 0, model |-> "",
          generation |-> Absent, urgent |-> FALSE]

\* the job dict; urgent is not a key of the dict: it is the queue the job was
\* put on, kept with the job for the observation logs
Job(path, start, seconds, model, generation, urgent) ==
    [path |-> path, start |-> start, seconds |-> seconds, model |-> model,
     generation |-> generation, urgent |-> urgent]
\* the in-flight key
JobKey(j) == <<j.path, j.start, j.model, j.generation>>
\* a window in the observation logs: its queue, path, start and generation
LogKey(j) == <<j.urgent, j.path, j.start, j.generation>>

\* ------------------------------------------------------------ AudioPlayer

\* get_position(): 0.0 unless playing, and 0.0 for a get_pos() that is not positive
get_position(s) ==
    IF ~s.is_playing THEN 0 ELSE IF s.mixer_pos > 0 THEN s.mixer_pos ELSE 0

\* the sidecar .srt of a track, parsed: track B has one, the others none
sidecar_subtitles(p) ==
    IF p = "B" THEN <<Subtitle(1, 0, Sec(1), TrackText(p))>> ELSE <<>>

\* load_file after its existence and extension tests
load_file(s, file_path) ==
    [s EXCEPT !.current_file = file_path,
              !.current_subtitles =
                  IF s.subtitle_cache[file_path].present
                  THEN s.subtitle_cache[file_path].subs
                  ELSE sidecar_subtitles(file_path),
              !.current_duration = Sec(DurationSec(file_path))]

\* stop()
stop(s) ==
    [s EXCEPT !.mixer_busy = FALSE, !.mixer_pos = Absent,
              !.is_playing = FALSE, !.is_paused = FALSE]

\* pause()
pause(s) ==
    IF s.is_playing /\ ~s.is_paused THEN [s EXCEPT !.is_paused = TRUE] ELSE s

\* unpause()
unpause(s) ==
    IF s.is_playing /\ s.is_paused THEN [s EXCEPT !.is_paused = FALSE] ELSE s

\* toggle_pause()
toggle_pause(s) == IF s.is_paused THEN unpause(s) ELSE pause(s)

\* ------------------------------------------------------------ MainWindow

\* _cancel_active_transcription without self._inflight.clear()
cancel_keeping_inflight(s) ==
    [s EXCEPT !.current_generation = @ + 1,
              !.transcribing_paths = {},
              !.tiny_next_start = [p \in Tracks |-> Absent],
              !.base_next_start = [p \in Tracks |-> Absent],
              !.urgent_queue = <<>>,
              !.bg_queue = <<>>,
              !.requested = {}, !.runs = [k \in {} |-> 0], !.silent = {}]

\* _cancel_active_transcription: the locked reset, then both queues drained
cancel_active_transcription(s) ==
    [s EXCEPT !.current_generation = @ + 1,
              !.transcribing_paths = {},
              !.inflight = {},
              !.tiny_next_start = [p \in Tracks |-> Absent],
              !.base_next_start = [p \in Tracks |-> Absent],
              !.urgent_queue = <<>>,
              !.bg_queue = <<>>,
              !.requested = {}, !.runs = [k \in {} |-> 0], !.silent = {}]

\* _enqueue_chunk_job without its `if key in self._inflight: return`
enqueue_without_inflight_test(s, path, start_seconds, seconds, model, generation, urgent) ==
    LET key == <<path, start_seconds, model, generation>>
        new == Job(path, start_seconds, seconds, model, generation, urgent)
    IN IF seconds <= 0 THEN s
       ELSE IF urgent
            THEN [s EXCEPT !.inflight = @ \cup {key}, !.urgent_queue = Append(@, new),
                           !.requested = @ \cup {LogKey(new)}]
            ELSE [s EXCEPT !.inflight = @ \cup {key}, !.bg_queue = Append(@, new),
                           !.requested = @ \cup {LogKey(new)}]

\* _enqueue_chunk_job giving up, key unrecorded, when its queue holds a job
enqueue_unless_queue_busy(s, path, start_seconds, seconds, model, generation, urgent) ==
    LET key == <<path, start_seconds, model, generation>>
        new == Job(path, start_seconds, seconds, model, generation, urgent)
    IN IF seconds <= 0 THEN s
       ELSE IF key \in s.inflight THEN s
       ELSE IF urgent
            THEN IF s.urgent_queue # <<>> THEN s
                 ELSE [s EXCEPT !.inflight = @ \cup {key},
                                !.urgent_queue = Append(@, new),
                                !.requested = @ \cup {LogKey(new)}]
            ELSE IF s.bg_queue # <<>> THEN s
                 ELSE [s EXCEPT !.inflight = @ \cup {key},
                                !.bg_queue = Append(@, new),
                                !.requested = @ \cup {LogKey(new)}]

\* _enqueue_chunk_job
enqueue_chunk_job(s, path, start_seconds, seconds, model, generation, urgent) ==
    LET key == <<path, start_seconds, model, generation>>
        new == Job(path, start_seconds, seconds, model, generation, urgent)
    IN IF seconds <= 0 THEN s
       ELSE IF key \in s.inflight THEN s
       ELSE IF urgent
            THEN [s EXCEPT !.inflight = @ \cup {key}, !.urgent_queue = Append(@, new),
                           !.requested = @ \cup {LogKey(new)}]
            ELSE [s EXCEPT !.inflight = @ \cup {key}, !.bg_queue = Append(@, new),
                           !.requested = @ \cup {LogKey(new)}]

\* _on_subtitle_needed without its _enqueue_chunk_job call
on_subtitle_needed_without_job(s, audio_path) ==
    IF ~s.config.auto_transcribe_on_play THEN s
    ELSE IF s.current_file # audio_path THEN s
    ELSE [s EXCEPT
            !.transcribing_paths = @ \cup {audio_path},
            !.tiny_next_start[audio_path] = IF @ = Absent THEN 0 ELSE @,
            !.base_next_start[audio_path] = IF @ = Absent THEN 0 ELSE @]

\* _on_subtitle_needed
on_subtitle_needed(s, audio_path) ==
    IF ~s.config.auto_transcribe_on_play THEN s
    ELSE IF s.current_file # audio_path THEN s
    ELSE LET s1 == [s EXCEPT
                      !.transcribing_paths = @ \cup {audio_path},
                      !.tiny_next_start[audio_path] = IF @ = Absent THEN 0 ELSE @,
                      !.base_next_start[audio_path] = IF @ = Absent THEN 0 ELSE @]
         IN enqueue_chunk_job(s1, audio_path, 0, s.config.subtitle_preview_seconds,
                              "base", s1.current_generation, TRUE)

\* AudioPlayer.play calling on_subtitle_needed whether or not the track was
\* loaded with captions
play_always_needing_subtitles(s, file_path, outcome) ==
    IF outcome = "missing" THEN [s |-> s, ok |-> FALSE]
    ELSE LET s1 == [stop(load_file(s, file_path)) EXCEPT !.last_subtitle_valid = FALSE,
                                                         !.subtitle_notified = FALSE]
         IN IF outcome = "decode_fail" THEN [s |-> s1, ok |-> FALSE]
            ELSE LET s2 == [s1 EXCEPT
                              !.mixer_busy = TRUE, !.mixer_pos = 0,
                              !.is_playing = TRUE, !.is_paused = FALSE,
                              !.progress_pc = IF @ = "dead" THEN "loop" ELSE @]
                 IN [s |-> on_subtitle_needed(s2, file_path), ok |-> TRUE]

\* AudioPlayer.play(file_path): [s: the state after, ok: the value returned]
play(s, file_path, outcome) ==
    IF outcome = "missing" THEN [s |-> s, ok |-> FALSE]
    ELSE LET s1 == [stop(load_file(s, file_path)) EXCEPT !.last_subtitle_valid = FALSE,
                                                         !.subtitle_notified = FALSE]
         IN IF outcome = "decode_fail" THEN [s |-> s1, ok |-> FALSE]
            ELSE LET s2 == [s1 EXCEPT
                              !.mixer_busy = TRUE, !.mixer_pos = 0,
                              !.is_playing = TRUE, !.is_paused = FALSE,
                              !.progress_pc = IF @ = "dead" THEN "loop" ELSE @]
                 IN [s |-> IF s2.current_subtitles = <<>>
                           THEN on_subtitle_needed(s2, file_path) ELSE s2,
                     ok |-> TRUE]

\* _play_index without its _cancel_active_transcription call
play_index_without_cancel(s, index, outcome) ==
    IF s.closing_ui \/ s.loading_folder THEN s
    ELSE IF ~(0 <= index /\ index < Len(s.playlist)) THEN s
    ELSE LET s1 == [s EXCEPT !.current_index = index]
             r == play(s1, s.playlist[index + 1], outcome)
         IN IF ~r.ok THEN r.s
            ELSE [r.s EXCEPT !.was_playing_track = TRUE, !.handling_auto_next = FALSE]

\* _play_index (index counts from 0)
play_index(s, index, outcome) ==
    IF s.closing_ui \/ s.loading_folder THEN s
    ELSE IF ~(0 <= index /\ index < Len(s.playlist)) THEN s
    ELSE LET s1 == [cancel_active_transcription(s) EXCEPT !.current_index = index]
             r == play(s1, s.playlist[index + 1], outcome)
         IN IF ~r.ok THEN r.s
            ELSE [r.s EXCEPT !.was_playing_track = TRUE, !.handling_auto_next = FALSE]

\* the folders the user can pick in the dialog of _open_folder; "" is the
\* dialog cancelled
Folders == {"", "AB", "B", "empty"}

\* find_audio_files(directory)
find_audio_files(directory) ==
    IF directory = "AB" THEN <<"A", "B">>
    ELSE IF directory = "B" THEN <<"B">>
    ELSE <<>>

\* _open_folder, the folder dialog returning `directory`
open_folder(s, directory) ==
    LET s1 == [stop(cancel_active_transcription([s EXCEPT !.loading_folder = TRUE]))
               EXCEPT !.current_file = NoPath,
                      !.current_subtitles = <<>>,
                      !.was_playing_track = FALSE]
        files == find_audio_files(directory)
        s2 == IF directory = "" THEN s1
              ELSE [s1 EXCEPT !.playlist = files,
                              !.current_index = IF files # <<>> THEN 0 ELSE 0 - 1]
    IN [s2 EXCEPT !.loading_folder = FALSE]

\* closeEvent: the flags, the sentinel None on both queues, player.cleanup()
close_event(s) ==
    [stop(s) EXCEPT !.closing_ui = TRUE,
                    !.worker_stop = TRUE,
                    !.urgent_queue = Append(@, NoJob),
                    !.bg_queue = Append(@, NoJob)]

\* _next without the wrap to index 0 after the last row
next_without_wrap(s, outcome) ==
    IF s.closing_ui \/ s.loading_folder THEN s
    ELSE IF Len(s.playlist) = 0 THEN s
    ELSE play_index(s, s.current_index + 1, outcome)

\* _next
next_track(s, outcome) ==
    IF s.closing_ui \/ s.loading_folder THEN s
    ELSE IF Len(s.playlist) = 0 THEN s
    ELSE play_index(s, IF s.current_index < Len(s.playlist) - 1
                       THEN s.current_index + 1 ELSE 0, outcome)

\* _handle_playback_end
handle_playback_end(s, outcome) ==
    IF s.closing_ui \/ s.loading_folder THEN s
    ELSE IF s.handling_auto_next THEN s
    ELSE LET s1 == [s EXCEPT !.handling_auto_next = TRUE,
                             !.was_playing_track = FALSE]
             s2 == next_track(s1, outcome)
         IN [s2 EXCEPT !.handling_auto_next = FALSE,
                       !.end_advances =
                           IF s2.current_generation # s.current_generation
                              /\ outcome = "ok"
                           THEN Min(@ + 1, MaxCount) ELSE @]

\* _get_cached_coverage
get_cached_coverage(s, path) ==
    LET cached == IF s.subtitle_cache[path].present
                  THEN s.subtitle_cache[path].subs ELSE <<>>
        subs == IF cached = <<>> /\ s.current_file = path
                THEN s.current_subtitles ELSE cached
    IN max_end(subs)

\* the window starts the scheduler can reach on the tracks explored
MaxStart == 1 + DurationSec("A")

\* the scheduling without the test that position plus lead has reached the
\* next draft window
schedule_draft_regardless(s, path) ==
    LET generation == s.current_generation
        tiny_next == IF s.tiny_next_start[path] = Absent THEN 0 ELSE s.tiny_next_start[path]
        base_next == IF s.base_next_start[path] = Absent THEN 0 ELSE s.base_next_start[path]
        position == get_position(s)
        lead_seconds == s.config.subtitle_chunk_lead_seconds
        tiny_chunk == s.config.subtitle_preview_seconds
        base_chunk == s.config.base_chunk_seconds
        upgrade_start == s.config.upgrade_start_after_seconds
        ahead == IntSec(position + Sec(lead_seconds))
        s1 == IF tiny_next <= MaxStart
              THEN [enqueue_chunk_job(s, path, tiny_next, tiny_chunk, "base",
                                      generation, TRUE)
                    EXCEPT !.tiny_next_start[path] = tiny_next + tiny_chunk]
              ELSE s
        tiny_covered == get_cached_coverage(s1, path)
    IN IF ~s.config.enable_full_transcription THEN s1
       ELSE IF tiny_covered < Sec(upgrade_start) THEN s1
       ELSE IF ahead >= base_next
               /\ base_next + base_chunk <= IntSec(tiny_covered + Sec(1))
            THEN [enqueue_chunk_job(s1, path, base_next, base_chunk, "base",
                                    generation, FALSE)
                  EXCEPT !.base_next_start[path] = base_next + base_chunk]
            ELSE s1

\* the scheduling without the test that the upgrade window is covered
schedule_upgrade_ahead(s, path) ==
    LET generation == s.current_generation
        tiny_next == IF s.tiny_next_start[path] = Absent THEN 0 ELSE s.tiny_next_start[path]
        base_next == IF s.base_next_start[path] = Absent THEN 0 ELSE s.base_next_start[path]
        position == get_position(s)
        lead_seconds == s.config.subtitle_chunk_lead_seconds
        tiny_chunk == s.config.subtitle_preview_seconds
        base_chunk == s.config.base_chunk_seconds
        upgrade_start == s.config.upgrade_start_after_seconds
        ahead == IntSec(position + Sec(lead_seconds))
        s1 == IF ahead >= tiny_next
              THEN [enqueue_chunk_job(s, path, tiny_next, tiny_chunk, "base",
                                      generation, TRUE)
                    EXCEPT !.tiny_next_start[path] = tiny_next + tiny_chunk]
              ELSE s
        tiny_covered == get_cached_coverage(s1, path)
    IN IF ~s.config.enable_full_transcription THEN s1
       ELSE IF tiny_covered < Sec(upgrade_start) THEN s1
       ELSE IF ahead >= base_next
            THEN [enqueue_chunk_job(s1, path, base_next, base_chunk, "base",
                                    generation, FALSE)
                  EXCEPT !.base_next_start[path] = base_next + base_chunk]
            ELSE s1

\* _tick_transcription_scheduler below its two watchdogs: the scheduling
schedule_chunks(s, path) ==
    LET generation == s.current_generation
        tiny_next == IF s.tiny_next_start[path] = Absent THEN 0 ELSE s.tiny_next_start[path]
        base_next == IF s.base_next_start[path] = Absent THEN 0 ELSE s.base_next_start[path]
        position == get_position(s)
        lead_seconds == s.config.subtitle_chunk_lead_seconds
        tiny_chunk == s.config.subtitle_preview_seconds
        base_chunk == s.config.base_chunk_seconds
        upgrade_start == s.config.upgrade_start_after_seconds
        ahead == IntSec(position + Sec(lead_seconds))
        s1 == IF ahead >= tiny_next
              THEN [enqueue_chunk_job(s, path, tiny_next, tiny_chunk, "base",
                                      generation, TRUE)
                    EXCEPT !.tiny_next_start[path] = tiny_next + tiny_chunk]
              ELSE s
        tiny_covered == get_cached_coverage(s1, path)
    IN IF ~s.config.enable_full_transcription THEN s1
       ELSE IF tiny_covered < Sec(upgrade_start) THEN s1
       ELSE IF ahead >= base_next
               /\ base_next + base_chunk <= IntSec(tiny_covered + Sec(1))
            THEN [enqueue_chunk_job(s1, path, base_next, base_chunk, "base",
                                    generation, FALSE)
                  EXCEPT !.base_next_start[path] = base_next + base_chunk]
            ELSE s1

\* _tick_transcription_scheduler with a line-502 test that forgets is_paused
tick_ignoring_pause(s, outcome) ==
    IF s.closing_ui \/ s.loading_folder THEN s
    ELSE IF /\ s.was_playing_track /\ ~s.is_playing /\ ~s.is_paused
            /\ s.current_file # NoPath /\ Len(s.playlist) > 0
            /\ ~s.handling_auto_next
         THEN handle_playback_end(s, outcome)
    ELSE IF /\ s.was_playing_track /\ s.is_playing /\ ~s.is_paused
            /\ s.current_duration > 0 /\ ~s.handling_auto_next
            /\ get_position(s) >= s.current_duration - TailTolerance
            /\ ~s.mixer_busy
         THEN handle_playback_end(s, outcome)
    ELSE IF ~s.is_playing THEN s
    ELSE IF s.current_file = NoPath THEN s
    ELSE IF s.current_file \notin s.transcribing_paths THEN s
    ELSE schedule_chunks(s, s.current_file)

\* _toggle_play
toggle_play(s, outcome) ==
    IF ~s.is_playing /\ ~s.is_paused
    THEN IF Len(s.playlist) > 0 /\ s.current_index >= 0
         THEN play_index(s, s.current_index, outcome)
         ELSE s
    ELSE toggle_pause(s)

\* _tick_transcription_scheduler
tick_transcription_scheduler(s, outcome) ==
    IF s.closing_ui \/ s.loading_folder THEN s
    ELSE IF /\ s.was_playing_track /\ ~s.is_playing /\ ~s.is_paused
            /\ s.current_file # NoPath /\ Len(s.playlist) > 0
            /\ ~s.handling_auto_next
         THEN handle_playback_end(s, outcome)
    ELSE IF /\ s.was_playing_track /\ s.is_playing /\ ~s.is_paused
            /\ s.current_duration > 0 /\ ~s.handling_auto_next
            /\ get_position(s) >= s.current_duration - TailTolerance
            /\ ~s.mixer_busy
         THEN handle_playback_end(s, outcome)
    ELSE IF ~s.is_playing \/ s.is_paused THEN s
    ELSE IF s.current_file = NoPath THEN s
    ELSE IF s.current_file \notin s.transcribing_paths THEN s
    ELSE schedule_chunks(s, s.current_file)

\* ----------------------------------------------------------------- Init

\* Config.DEFAULT_CONFIG scaled down: chunk lengths, lead and threshold in seconds
Configs ==
    {[auto_transcribe_on_play |-> TRUE, enable_full_transcription |-> TRUE,
      subtitle_preview_seconds |-> 2, subtitle_chunk_lead_seconds |-> 1,
      base_chunk_seconds |-> 2, upgrade_start_after_seconds |-> 2]}

\* MainWindow.__init__ and AudioPlayer.__init__, then a folder opened:
\* the playlist is loaded, its first row selected, nothing plays
InitState(c, files) ==
    [config |-> c,
     current_generation |-> 0,
     was_playing_track |-> FALSE,
     handling_auto_next |-> FALSE,
     closing_ui |-> FALSE,
     loading_folder |-> FALSE,
     transcribing_paths |-> {},
     inflight |-> {},
     tiny_next_start |-> [p \in Tracks |-> Absent],
     base_next_start |-> [p \in Tracks |-> Absent],
     urgent_queue |-> <<>>,
     bg_queue |-> <<>>,
     worker_stop |-> FALSE,
     playlist |-> files,
     current_file |-> NoPath,
     current_index |-> 0,
     current_duration |-> 0,
     current_subtitles |-> <<>>,
     subtitle_cache |-> [p \in Tracks |-> NoEntry],
     is_playing |-> FALSE,
     is_paused |-> FALSE,
     last_subtitle_valid |-> FALSE,
     last_subtitle |-> NoSubtitle,
     subtitle_notified |-> FALSE,
     progress_pc |-> "dead",
     mixer_busy |-> FALSE,
     mixer_pos |-> Absent,
     end_advances |-> 0,
     requested |-> {},
     runs |-> [k \in {} |-> 0],
     silent |-> {}]

\* the state is s
Set(s) ==
    /\ config = s.config
    /\ current_generation = s.current_generation
    /\ was_playing_track = s.was_playing_track
    /\ handling_auto_next = s.handling_auto_next
    /\ closing_ui = s.closing_ui
    /\ loading_folder = s.loading_folder
    /\ transcribing_paths = s.transcribing_paths
    /\ inflight = s.inflight
    /\ tiny_next_start = s.tiny_next_start
    /\ base_next_start = s.base_next_start
    /\ urgent_queue = s.urgent_queue
    /\ bg_queue = s.bg_queue
    /\ worker_stop = s.worker_stop
    /\ playlist = s.playlist
    /\ current_file = s.current_file
    /\ current_index = s.current_index
    /\ current_duration = s.current_duration
    /\ current_subtitles = s.current_subtitles
    /\ subtitle_cache = s.subtitle_cache
    /\ is_playing = s.is_playing
    /\ is_paused = s.is_paused
    /\ last_subtitle_valid = s.last_subtitle_valid
    /\ last_subtitle = s.last_subtitle
    /\ subtitle_notified = s.subtitle_notified
    /\ progress_pc = s.progress_pc
    /\ mixer_busy = s.mixer_busy
    /\ mixer_pos = s.mixer_pos
    /\ end_advances = s.end_advances
    /\ requested = s.requested
    /\ runs = s.runs
    /\ silent = s.silent

InitWith(c, files) ==
    /\ Set(InitState(c, files))
    /\ end_signal_pending = 0
    /\ not_busy_ticks = 0
    /\ worker_pc = "loop"
    /\ job = NoJob
    /\ result_subs = <<>>
    /\ merged = <<>>
    /\ notified = "none"
    /\ preview_wav = NoPath

Init == \E c \in Configs : InitWith(c, <<"A", "B">>)

\* ------------------------------------------------------- UI thread actions

\* the track switches explored: one more when transcription is off and the
\* worker idles
GenerationBound ==
    IF config.auto_transcribe_on_play THEN MaxGeneration ELSE MaxGeneration + 1

\* a handler's result, kept within the explored generations
UiStep(s) ==
    /\ s.current_generation <= GenerationBound
    /\ Put(s)
    /\ UNCHANGED <<workerVars, not_busy_ticks>>

\* the user starts a track: _play_item, _prev, _next or _toggle_play
UserPlay ==
    \E index \in 0 .. Len(playlist) - 1, outcome \in PlayOutcomes :
        /\ UiStep([play_index(Cur, index, outcome) EXCEPT !.end_advances = 0])
        /\ UNCHANGED end_signal_pending

\* the user presses the play/pause button: _toggle_play
UserTogglePlay ==
    \E outcome \in PlayOutcomes :
        /\ UiStep([toggle_play(Cur, outcome) EXCEPT
                      !.end_advances = IF ~is_playing /\ ~is_paused THEN 0 ELSE @])
        /\ UNCHANGED end_signal_pending

\* the user presses "Open Folder": _open_folder
UserOpenFolder ==
    \E directory \in Folders :
        /\ UiStep([open_folder(Cur, directory) EXCEPT !.end_advances = 0])
        /\ UNCHANGED end_signal_pending

\* the user closes the window: closeEvent
UserClose ==
    /\ ~closing_ui
    /\ UiStep(close_event(Cur))
    /\ UNCHANGED end_signal_pending

\* the QTimer fires: _tick_transcription_scheduler
SchedulerTick ==
    \E outcome \in PlayOutcomes :
        /\ UiStep(tick_transcription_scheduler(Cur, outcome))
        /\ UNCHANGED end_signal_pending

\* a queued playback_end_signal reaches its slot: _handle_playback_end
DeliverPlaybackEnd ==
    \E outcome \in PlayOutcomes :
        /\ end_signal_pending > 0
        /\ end_signal_pending' = end_signal_pending - 1
        /\ UiStep(handle_playback_end(Cur, outcome))

\* ------------------------------------------------------------- the mixer

\* playback advances
MixerAdvance ==
    /\ mixer_busy /\ ~is_paused
    /\ mixer_pos < current_duration
    /\ mixer_pos' = Min(mixer_pos + Sec(PosStep), current_duration)
    /\ UNCHANGED <<config, current_generation, was_playing_track, handling_auto_next,
                   closing_ui, loading_folder, transcribing_paths, inflight,
                   tiny_next_start, base_next_start, urgent_queue, bg_queue,
                   worker_stop, playlist, current_file, current_index, current_duration,
                   current_subtitles, subtitle_cache, is_playing, is_paused,
                   last_subtitle_valid, last_subtitle, subtitle_notified, progress_pc,
                   mixer_busy, end_advances,
                   requested, runs, silent, workerVars, end_signal_pending, not_busy_ticks>>

\* the music runs out: get_busy() turns False, and get_pos() either keeps the
\* last position or reports -1
MixerFinish ==
    /\ mixer_busy /\ ~is_paused
    /\ mixer_pos = current_duration
    /\ mixer_busy' = FALSE
    /\ mixer_pos' \in {mixer_pos, Absent}
    /\ end_advances' = 0
    /\ UNCHANGED <<config, current_generation, was_playing_track, handling_auto_next,
                   closing_ui, loading_folder, transcribing_paths, inflight,
                   tiny_next_start, base_next_start, urgent_queue, bg_queue,
                   worker_stop, playlist, current_file, current_index, current_duration,
                   current_subtitles, subtitle_cache, is_playing, is_paused,
                   last_subtitle_valid, last_subtitle, subtitle_notified, progress_pc,
                   requested, runs, silent,
                   workerVars, end_signal_pending, not_busy_ticks>>

\* ------------------------------------------- AudioPlayer._update_progress

\* one pass of the loop body while is_playing
ProgressPoll ==
    /\ progress_pc = "loop" /\ is_playing
    /\ \E startup_grace \in BOOLEAN :
        LET position == get_position(Cur)
            ticks == IF mixer_busy THEN 0
                     ELSE IF startup_grace /\ position <= UnitsPerSec \div 5 THEN 0
                     ELSE Min(not_busy_ticks + 1, 3)
            reached_end == current_duration > 0
                           /\ position >= current_duration - TailTolerance
            ended == ~is_paused /\ ~mixer_busy /\ (reached_end \/ ticks >= 3)
        IN /\ not_busy_ticks' = IF is_paused THEN not_busy_ticks ELSE ticks
           /\ Put([Cur EXCEPT !.is_playing = ~ended,
                              !.progress_pc = IF ended THEN "notify" ELSE "loop"])
    /\ UNCHANGED <<workerVars, end_signal_pending>>

\* the same pass up to the test "reached_end or confirmed_end" succeeding
\* (lines 429-442), the write of is_playing still to come: the UI thread may
\* run between the two
ProgressDetectEnd ==
    /\ progress_pc = "loop" /\ is_playing
    /\ \E startup_grace \in BOOLEAN :
        LET position == get_position(Cur)
            ticks == IF mixer_busy THEN 0
                     ELSE IF startup_grace /\ position <= UnitsPerSec \div 5 THEN 0
                     ELSE Min(not_busy_ticks + 1, 3)
            reached_end == current_duration > 0
                           /\ position >= current_duration - TailTolerance
        IN /\ ~is_paused /\ ~mixer_busy /\ (reached_end \/ ticks >= 3)
           /\ not_busy_ticks' = ticks
           /\ Put([Cur EXCEPT !.progress_pc = "set_ended"])
    /\ UNCHANGED <<workerVars, end_signal_pending>>

\* self.is_playing = False (line 443), whatever the UI thread did meanwhile
ProgressSetEnded ==
    /\ progress_pc = "set_ended"
    /\ Put([Cur EXCEPT !.is_playing = FALSE, !.progress_pc = "notify"])
    /\ UNCHANGED <<workerVars, end_signal_pending, not_busy_ticks>>

\* the loop test fails: the thread ends
ProgressExit ==
    /\ progress_pc = "loop" /\ ~is_playing
    /\ Put([Cur EXCEPT !.progress_pc = "dead"])
    /\ not_busy_ticks' = 0
    /\ UNCHANGED <<workerVars, end_signal_pending>>

\* on_playback_end(): _on_playback_end emits playback_end_signal, then break
ProgressNotify ==
    /\ progress_pc = "notify"
    /\ end_signal_pending' = IF closing_ui \/ loading_folder
                             THEN end_signal_pending ELSE end_signal_pending + 1
    /\ Put([Cur EXCEPT !.progress_pc = "dead"])
    /\ not_busy_ticks' = 0
    /\ UNCHANGED workerVars

\* ------------------------------------------ AudioPlayer._update_subtitles

\* one pass of the loop body while is_playing and not paused: the caption at
\* the current position, stored and reported if it is new
SubtitleUpdate ==
    /\ is_playing /\ ~is_paused
    /\ LET subtitle == find_subtitle_by_time(current_subtitles, get_position(Cur))
       IN IF ~last_subtitle_valid \/ subtitle # last_subtitle
          THEN Put([Cur EXCEPT !.last_subtitle = subtitle,
                               !.subtitle_notified = TRUE,
                               !.last_subtitle_valid = TRUE])
          ELSE Put(Cur)
    /\ UNCHANGED <<workerVars, end_signal_pending, not_busy_ticks>>

\* ------------------------------------------ MainWindow._transcription_worker

\* what transcribe_to_subtitles can return for a window of `seconds` seconds of
\* `path`, offsets relative to the window: nothing (silence), or one caption
\* spanning the window
AsrResults(path, seconds) ==
    {<<>>, <<Subtitle(1, 0, Sec(seconds), TrackText(path))>>}

\* the run log with one more run of job j, if j is of the current generation
Logged(log, j) ==
    IF j.generation # current_generation THEN log
    ELSE [k \in DOMAIN log \cup {LogKey(j)} |->
             IF k = LogKey(j)
             THEN Min((IF k \in DOMAIN log THEN log[k] ELSE 0) + 1, MaxCount)
             ELSE log[k]]

WorkerStep(pc, s) ==
    /\ worker_pc' = pc
    /\ Put(s)
    /\ UNCHANGED <<end_signal_pending, not_busy_ticks>>

\* a loop test that never sees the stop flag: while True
WorkerLoopForever ==
    /\ worker_pc = "loop"
    /\ WorkerStep("get_urgent", Cur)
    /\ job' = NoJob /\ result_subs' = <<>> /\ merged' = <<>>
    /\ notified' = "none" /\ preview_wav' = NoPath

\* while not self._worker_stop.is_set()
WorkerLoopTest ==
    /\ worker_pc = "loop"
    /\ WorkerStep(IF worker_stop THEN "stopped" ELSE "get_urgent", Cur)
    /\ job' = NoJob /\ result_subs' = <<>> /\ merged' = <<>>
    /\ notified' = "none" /\ preview_wav' = NoPath

\* _dequeue_job: self._urgent_queue.get(timeout=0.2) returns a job
WorkerGetUrgent ==
    /\ worker_pc = "get_urgent"
    /\ urgent_queue # <<>>
    /\ job' = Head(urgent_queue)
    /\ WorkerStep(IF Head(urgent_queue) = NoJob THEN "loop" ELSE "stale_generation",
                  [Cur EXCEPT !.urgent_queue = Tail(@)])
    /\ UNCHANGED <<result_subs, merged, notified, preview_wav>>

\* _dequeue_job: the urgent get times out on an empty queue
WorkerUrgentEmpty ==
    /\ worker_pc = "get_urgent"
    /\ urgent_queue = <<>>
    /\ WorkerStep("get_bg", Cur)
    /\ UNCHANGED <<job, result_subs, merged, notified, preview_wav>>

\* _dequeue_job: self._bg_queue.get(timeout=0.2) returns a job
WorkerGetBg ==
    /\ worker_pc = "get_bg"
    /\ bg_queue # <<>>
    /\ job' = Head(bg_queue)
    /\ WorkerStep(IF Head(bg_queue) = NoJob THEN "loop" ELSE "stale_generation",
                  [Cur EXCEPT !.bg_queue = Tail(@)])
    /\ UNCHANGED <<result_subs, merged, notified, preview_wav>>

\* _dequeue_job: the background get times out too, None is returned
WorkerBgEmpty ==
    /\ worker_pc = "get_bg"
    /\ bg_queue = <<>>
    /\ WorkerStep("loop", Cur)
    /\ UNCHANGED <<job, result_subs, merged, notified, preview_wav>>

\* _is_stale_job, under the lock: the generation test
is_stale_generation(generation) == generation # current_generation
\* _is_stale_job, after the lock: the path test
is_stale_path(path) == current_file # path

\* _is_stale_job, first half (before extraction and after the ASR call)
WorkerStaleGeneration ==
    /\ worker_pc \in {"stale_generation", "stale_generation_2"}
    /\ WorkerStep(IF is_stale_generation(job.generation) THEN "stale_discard"
                  ELSE IF worker_pc = "stale_generation" THEN "stale_path"
                  ELSE "stale_path_2", Cur)
    /\ UNCHANGED <<job, result_subs, merged, notified, preview_wav>>

\* _is_stale_job, second half
WorkerStalePath ==
    /\ worker_pc \in {"stale_path", "stale_path_2"}
    /\ WorkerStep(IF is_stale_path(job.path) THEN "stale_discard"
                  ELSE IF worker_pc = "stale_path" THEN "extract"
                  ELSE "merge", Cur)
    /\ UNCHANGED <<job, result_subs, merged, notified, preview_wav>>

\* what _make_preview_wav can do once its temporary file is created: ffmpeg
\* writes the window ("ok"), ffmpeg returns non-zero and the file is unlinked
\* ("nonzero"), or subprocess.run raises and except Exception returns None
\* ("raised")
ExtractOutcomes == {"ok", "nonzero", "raised"}

\* the name of the temporary file
TempWav == "tmp.wav"

\* _make_preview_wav: ffmpeg cuts the window, or fails
WorkerExtract ==
    /\ worker_pc = "extract"
    /\ \E outcome \in ExtractOutcomes :
        /\ WorkerStep(IF outcome = "ok" THEN "transcribe" ELSE "extract_failed",
                      [Cur EXCEPT !.runs = Logged(runs, job)])
        /\ preview_wav' = IF outcome = "nonzero" THEN NoPath ELSE TempWav
    /\ UNCHANGED <<job, result_subs, merged, notified>>

\* transcribe_to_subtitles returns
WorkerTranscribe ==
    /\ worker_pc = "transcribe"
    /\ \E subs \in AsrResults(job.path, job.seconds) :
        /\ result_subs' = subs
        /\ WorkerStep("stale_generation_2",
                      [Cur EXCEPT !.silent =
                          IF subs = <<>> /\ job.generation = current_generation
                          THEN @ \cup {LogKey(job)} ELSE @])
    /\ preview_wav' = NoPath
    /\ UNCHANGED <<job, merged, notified>>

\* transcribe_to_subtitles raises and nothing catches it: the thread ends
WorkerTranscribeUncaught ==
    /\ worker_pc = "transcribe"
    /\ WorkerStep("stopped", Cur)
    /\ UNCHANGED <<job, result_subs, merged, notified, preview_wav>>

\* transcribe_to_subtitles raises and the handler emits nothing
WorkerTranscribeFailsSilently ==
    /\ worker_pc = "transcribe"
    /\ WorkerStep("asr_failed", Cur)
    /\ UNCHANGED <<job, result_subs, merged, notified, preview_wav>>

\* transcribe_to_subtitles raises: except Exception, where the failure is
\* emitted and the key marked done
WorkerTranscribeFails ==
    /\ worker_pc = "transcribe"
    /\ WorkerStep("asr_failed", Cur)
    /\ notified' = "error"
    /\ UNCHANGED <<job, result_subs, merged, preview_wav>>

\* the timeline _merge_subtitles starts from
merge_base(path) ==
    IF subtitle_cache[path].present THEN subtitle_cache[path].subs
    ELSE IF current_file = path THEN current_subtitles
    ELSE <<>>

\* _merge_subtitles
merge_subtitles(path, new_subs, start_seconds, end_seconds, model) ==
    merge_lists(merge_base(path), new_subs, start_seconds, end_seconds, model)

\* _offset_subtitles, and _merge_subtitles when a caption is left
WorkerMerge ==
    /\ worker_pc = "merge"
    /\ LET offset_subs == offset_subtitles(result_subs, job.start)
       IN IF offset_subs = <<>>
          THEN /\ merged' = <<>>
               /\ WorkerStep("emit_done", Cur)
          ELSE /\ merged' = merge_subtitles(job.path, offset_subs, job.start,
                                            job.start + job.seconds, job.model)
               /\ WorkerStep("set_cache", Cur)
    /\ UNCHANGED <<job, result_subs, notified, preview_wav>>

\* set_cached_subtitles: self._subtitle_cache[audio_path] = subtitles
WorkerSetCache ==
    /\ worker_pc = "set_cache"
    /\ WorkerStep("test_current",
                  [Cur EXCEPT !.subtitle_cache[job.path] =
                                  [present |-> TRUE, subs |-> merged]])
    /\ UNCHANGED <<job, result_subs, merged, notified, preview_wav>>

\* set_cached_subtitles: if self.current_file == audio_path
WorkerTestCurrent ==
    /\ worker_pc = "test_current"
    /\ WorkerStep(IF current_file = job.path THEN "set_current" ELSE "emit_done", Cur)
    /\ UNCHANGED <<job, result_subs, merged, notified, preview_wav>>

\* set_cached_subtitles: self.current_subtitles = subtitles
WorkerSetCurrent ==
    /\ worker_pc = "set_current"
    /\ WorkerStep("emit_done",
                  [Cur EXCEPT !.current_subtitles = merged,
                              !.last_subtitle_valid = FALSE])
    /\ UNCHANGED <<job, result_subs, merged, notified, preview_wav>>

\* the next pass of the loop without _mark_inflight_done: the job is left
\* in flight while the worker goes for another
WorkerLeavesJobInFlight ==
    /\ worker_pc \in {"mark_done", "stale_discard", "extract_failed", "asr_failed"}
    /\ WorkerStep("loop", Cur)
    /\ preview_wav' = IF worker_pc = "asr_failed" THEN NoPath ELSE preview_wav
    /\ UNCHANGED <<job, result_subs, merged, notified>>

\* _mark_inflight_done on the path of a merged result only: the stale, the
\* failed-extraction and the failed-ASR paths go for the next job without it
WorkerMarksDoneOnSuccessOnly ==
    /\ worker_pc \in {"mark_done", "stale_discard", "extract_failed", "asr_failed"}
    /\ WorkerStep("loop", IF worker_pc = "mark_done"
                          THEN [Cur EXCEPT !.inflight = @ \ {JobKey(job)}]
                          ELSE Cur)
    /\ preview_wav' = IF worker_pc = "asr_failed" THEN NoPath ELSE preview_wav
    /\ UNCHANGED <<job, result_subs, merged, notified>>

\* self.transcribe_done_signal.emit(path, None, model)
WorkerEmitDone ==
    /\ worker_pc = "emit_done"
    /\ WorkerStep("mark_done", Cur)
    /\ notified' = "done"
    /\ UNCHANGED <<job, result_subs, merged, preview_wav>>

\* _mark_inflight_done (after a raised ASR call followed by the unlink of the
\* temporary file), then the next pass of the loop
WorkerMarkDone ==
    /\ worker_pc \in {"mark_done", "stale_discard", "extract_failed", "asr_failed"}
    /\ WorkerStep("loop", [Cur EXCEPT !.inflight = @ \ {JobKey(job)}])
    /\ preview_wav' = IF worker_pc = "asr_failed" THEN NoPath ELSE preview_wav
    /\ UNCHANGED <<job, result_subs, merged, notified>>

Worker ==
    \/ WorkerLoopTest \/ WorkerGetUrgent \/ WorkerUrgentEmpty \/ WorkerGetBg
    \/ WorkerBgEmpty \/ WorkerStaleGeneration \/ WorkerStalePath \/ WorkerExtract
    \/ WorkerTranscribe \/ WorkerTranscribeFails \/ WorkerMerge \/ WorkerSetCache
    \/ WorkerTestCurrent \/ WorkerSetCurrent \/ WorkerEmitDone \/ WorkerMarkDone

\* ------------------------------------------------------------------ Spec

\* The worker against the UI thread's track switches and scheduler ticks.
Next ==
    \/ UserPlay \/ SchedulerTick \/ MixerAdvance
    \/ Worker

Spec == Init /\ [][Next]_vars

\* The end of playback: the mixer runs out, the progress thread notices and
\* emits playback_end_signal, the scheduler's timer runs its watchdogs, and the
\* UI thread handles whichever comes. Transcription is off, the worker idles.
ConfigsEnd ==
    {[c EXCEPT !.auto_transcribe_on_play = FALSE] : c \in Configs}

InitEnd == \E c \in ConfigsEnd : InitWith(c, <<"A", "B">>)

NextEnd ==
    \/ UserPlay \/ SchedulerTick \/ DeliverPlaybackEnd
    \/ MixerAdvance \/ MixerFinish
    \/ ProgressPoll \/ ProgressExit \/ ProgressNotify

SpecEnd == InitEnd /\ [][NextEnd]_vars

\* The play/pause button against the scheduler's timer, the mixer and the
\* progress thread, with transcription on and the worker idle.
NextPause ==
    \/ UserTogglePlay \/ SchedulerTick \/ DeliverPlaybackEnd
    \/ MixerAdvance \/ MixerFinish
    \/ ProgressPoll \/ ProgressExit \/ ProgressNotify
    \/ ProgressDetectEnd \/ ProgressSetEnded

SpecPause == Init /\ [][NextPause]_vars

\* The 120-second track "S" played from its start with draft windows of 20 s,
\* a lead of 5 s and upgrades disabled, the scheduler's timer firing at
\* positions 0, 5, 10, ..., 120, against the worker.
Scenario == [chunk |-> 20, lead |-> 5, tick_every |-> 5, base_chunk |-> 45,
             upgrade_start |-> 60]

ConfigsScenario ==
    {[auto_transcribe_on_play |-> TRUE, enable_full_transcription |-> FALSE,
      subtitle_preview_seconds |-> Scenario.chunk,
      subtitle_chunk_lead_seconds |-> Scenario.lead,
      base_chunk_seconds |-> Scenario.base_chunk,
      upgrade_start_after_seconds |-> Scenario.upgrade_start]}

InitScenario == \E c \in ConfigsScenario : InitWith(c, <<"S">>)

\* the user starts the track, once
ScenarioPlay ==
    /\ current_file = NoPath
    /\ UiStep(play_index(Cur, 0, "ok"))
    /\ UNCHANGED end_signal_pending

\* the tick due at the current position has run: another would change nothing
TickDone == tick_transcription_scheduler(Cur, "ok") = Cur

\* playback moves on to the position of the next tick
ScenarioAdvance ==
    /\ mixer_busy /\ ~is_paused
    /\ mixer_pos < current_duration
    /\ TickDone
    /\ mixer_pos' = Min(mixer_pos + Sec(Scenario.tick_every), current_duration)
    /\ UNCHANGED <<config, current_generation, was_playing_track, handling_auto_next,
                   closing_ui, loading_folder, transcribing_paths, inflight,
                   tiny_next_start, base_next_start, urgent_queue, bg_queue,
                   worker_stop, playlist, current_file, current_index, current_duration,
                   current_subtitles, subtitle_cache, is_playing, is_paused,
                   last_subtitle_valid, last_subtitle, subtitle_notified, progress_pc,
                   mixer_busy, end_advances,
                   requested, runs, silent, workerVars, end_signal_pending, not_busy_ticks>>

NextScenario ==
    \/ ScenarioPlay \/ SchedulerTick \/ ScenarioAdvance
    \/ WorkerLoopTest \/ WorkerGetUrgent \/ WorkerUrgentEmpty \/ WorkerBgEmpty
    \/ WorkerStaleGeneration \/ WorkerStalePath \/ WorkerExtract
    \/ WorkerTranscribe \/ WorkerTranscribeFails \/ WorkerMerge \/ WorkerSetCache
    \/ WorkerTestCurrent \/ WorkerSetCurrent \/ WorkerEmitDone \/ WorkerMarkDone

SpecScenario == InitScenario /\ [][NextScenario]_vars

\* _merge_subtitles on its inputs: track "A" plays, its cached timeline is any
\* sorted choice of the captions below, and the worker has just passed its
\* second stale check with the result of an upgrade (background) job for the
\* window [0, 2) or [2, 4).
MergeCaptions ==
    <<[start |-> 0, end |-> 1], [start |-> 2, end |-> 3],
      [start |-> 3, end |-> 4], [start |-> 4, end |-> 5]>>

RECURSIVE timeline_of(_, _)
timeline_of(chosen, i) ==
    IF i > Len(MergeCaptions) THEN <<>>
    ELSE IF i \in chosen
         THEN <<Subtitle(i, Sec(MergeCaptions[i].start), Sec(MergeCaptions[i].end),
                         TrackText("A"))>> \o timeline_of(chosen, i + 1)
         ELSE timeline_of(chosen, i + 1)

MergeTimelines == {timeline_of(chosen, 1) : chosen \in SUBSET DOMAIN MergeCaptions}

MergeJobs ==
    {Job("A", start, c.base_chunk_seconds, "base", 1, FALSE) :
        start \in {0, 2}, c \in Configs}

InitMerge ==
    \E c \in Configs, timeline \in MergeTimelines, j \in MergeJobs :
    \E subs \in AsrResults(j.path, j.seconds) :
        LET s == play_index(InitState(c, <<"A", "B">>), 0, "ok")
        IN /\ Set([s EXCEPT !.subtitle_cache["A"] = [present |-> TRUE, subs |-> timeline],
                            !.current_subtitles = timeline,
                            !.urgent_queue = <<>>,
                            !.inflight = {JobKey(j)},
                            !.tiny_next_start["A"] = 1 + DurationSec("A"),
                            !.base_next_start["A"] = j.start + j.seconds,
                            !.requested = {LogKey(j)},
                            !.runs = [k \in {LogKey(j)} |-> 1]])
           /\ end_signal_pending = 0
           /\ not_busy_ticks = 0
           /\ worker_pc = "merge"
           /\ job = j
           /\ result_subs = subs
           /\ merged = <<>>
           /\ notified = "none"
           /\ preview_wav = NoPath

NextMerge ==
    \/ WorkerMerge \/ WorkerSetCache \/ WorkerTestCurrent \/ WorkerSetCurrent
    \/ WorkerEmitDone \/ WorkerMarkDone

SpecMerge == InitMerge /\ [][NextMerge]_vars

\* _merge_subtitles applied twice to one result: as under SpecMerge, with
\* results of up to MaxResult captions that may share an interval and may lie
\* beyond the window, and the same window transcribed again with the same
\* result after the first merge was stored.
ResultCaptions ==
    <<[start |-> 0, end |-> 1, text |-> "x"], [start |-> 0, end |-> 1, text |-> "y"],
      [start |-> 3, end |-> 4, text |-> "x"], [start |-> 3, end |-> 4, text |-> "y"]>>

\* the segments of one ASR call, times relative to the window
result_of(choice) ==
    [i \in DOMAIN choice |->
        Subtitle(i, Sec(ResultCaptions[choice[i]].start),
                 Sec(ResultCaptions[choice[i]].end), ResultCaptions[choice[i]].text)]

RemergeResults ==
    UNION {{result_of(choice) : choice \in [1 .. n -> DOMAIN ResultCaptions]} :
              n \in 0 .. MaxResult}

InitRemerge ==
    \E c \in Configs, timeline \in MergeTimelines, j \in MergeJobs :
    \E subs \in RemergeResults :
        LET s == play_index(InitState(c, <<"A", "B">>), 0, "ok")
        IN /\ Set([s EXCEPT !.subtitle_cache["A"] = [present |-> TRUE, subs |-> timeline],
                            !.current_subtitles = timeline,
                            !.urgent_queue = <<>>,
                            !.inflight = {JobKey(j)},
                            !.tiny_next_start["A"] = 1 + DurationSec("A"),
                            !.base_next_start["A"] = j.start + j.seconds,
                            !.requested = {LogKey(j)},
                            !.runs = [k \in {LogKey(j)} |-> 1]])
           /\ end_signal_pending = 0
           /\ not_busy_ticks = 0
           /\ worker_pc = "merge"
           /\ job = j
           /\ result_subs = subs
           /\ merged = <<>>
           /\ notified = "none"
           /\ preview_wav = NoPath

\* the window of the job just done is queued, taken, extracted and transcribed
\* once more, the ASR call returning what it returned before
WorkerRunsJobAgain ==
    /\ worker_pc = "loop"
    /\ job # NoJob
    /\ runs[LogKey(job)] = 1
    /\ WorkerStep("merge", [Cur EXCEPT !.inflight = @ \cup {JobKey(job)},
                                       !.runs = Logged(runs, job)])
    /\ notified' = "none"
    /\ UNCHANGED <<job, result_subs, merged, preview_wav>>

NextRemerge ==
    \/ WorkerMerge \/ WorkerSetCache \/ WorkerTestCurrent \/ WorkerSetCurrent
    \/ WorkerEmitDone \/ WorkerMarkDone \/ WorkerRunsJobAgain

SpecRemerge == InitRemerge /\ [][NextRemerge]_vars

\* The subtitle thread looking up the caption to show: track "S" plays, its
\* timeline is any list of up to three of the captions below in any order (a
\* sidecar .srt is kept in file order), and the position is one of Positions.
LookupCaptions ==
    {Subtitle(1, 0, Sec(2), "a"), Subtitle(2, Tenths(25), Sec(4), "b"),
     Subtitle(3, Sec(1), Sec(3), "c")}

LookupTimelines ==
    {tl \in UNION {[1 .. n -> LookupCaptions] : n \in 0 .. Cardinality(LookupCaptions)} :
        \A i, k \in DOMAIN tl : i # k => tl[i] # tl[k]}

Positions == {Tenths(n) : n \in {5, 10, 20, 22, 25, 30, 40, 45}}

InitLookup ==
    \E c \in ConfigsEnd, timeline \in LookupTimelines, position \in Positions :
        LET s == play_index(InitState(c, <<"S">>), 0, "ok")
        IN /\ Set([s EXCEPT !.current_subtitles = timeline, !.mixer_pos = position])
           /\ end_signal_pending = 0
           /\ not_busy_ticks = 0
           /\ worker_pc = "loop"
           /\ job = NoJob
           /\ result_subs = <<>>
           /\ merged = <<>>
           /\ notified = "none"
           /\ preview_wav = NoPath

NextLookup == SubtitleUpdate

SpecLookup == InitLookup /\ [][NextLookup]_vars

\* One track played from its start against the worker, the worker thread
\* scheduled fairly: it is a running thread that is never starved.
NextWorker ==
    \/ ScenarioPlay \/ SchedulerTick \/ MixerAdvance
    \/ Worker

SpecWorker == Init /\ [][NextWorker]_vars /\ WF_vars(Worker)

\* The scheduler against the worker with the upgrade tier enabled or disabled
\* ("Upgrade to base quality in background" in the settings dialog).
ConfigsUpgrade ==
    {[c EXCEPT !.enable_full_transcription = flag] : c \in Configs, flag \in BOOLEAN}

InitUpgrade == \E c \in ConfigsUpgrade : InitWith(c, <<"A", "B">>)

SpecUpgrade == InitUpgrade /\ [][NextWorker]_vars

\* The subtitle thread of one track played from its start, against the
\* scheduler and the worker storing merged timelines.
NextSubtitle ==
    \/ ScenarioPlay \/ SchedulerTick \/ MixerAdvance
    \/ SubtitleUpdate
    \/ Worker

SpecSubtitle == Init /\ [][NextSubtitle]_vars

\* Track switches and folder loads against the scheduler and the worker.
NextFolder ==
    \/ UserPlay \/ UserOpenFolder \/ SchedulerTick \/ MixerAdvance
    \/ Worker

SpecFolder == Init /\ [][NextFolder]_vars

\* One track played from its start and the window closed at any moment, the
\* worker thread scheduled fairly.
NextClose ==
    \/ ScenarioPlay \/ SchedulerTick \/ MixerAdvance \/ UserClose
    \/ Worker

SpecClose == Init /\ [][NextClose]_vars /\ WF_vars(Worker)

\* ---------------------------------------------------------------- claims

Range(f) == {f[i] : i \in DOMAIN f}

\* the worker holds a dequeued job it has not yet marked done
WorkerBusy ==
    worker_pc \in {"stale_generation", "stale_path", "extract", "transcribe",
                   "stale_generation_2", "stale_path_2", "merge", "set_cache",
                   "test_current", "set_current", "emit_done", "mark_done",
                   "stale_discard", "extract_failed", "asr_failed"}

\* the worker's step writes a timeline: a cache entry or player.current_subtitles
WorkerWritesTimeline ==
    /\ worker_pc \in {"set_cache", "set_current"}
    /\ worker_pc' # worker_pc
    /\ \/ subtitle_cache' # subtitle_cache
       \/ current_subtitles' # current_subtitles

\* C1 (staleness discards): a job enqueued under generation G writes no cached
\* timeline (player._subtitle_cache, player.current_subtitles) once
\* _cancel_active_transcription has advanced the generation, whatever the
\* interleaving of the worker's stale check, merge and set_cached_subtitles
\* with the UI thread's track switch.
C1_StaleJobWritesNoTimeline ==
    [][WorkerWritesTimeline => job.generation = current_generation]_vars

\* every caption of the playing track's timeline was spoken on that track
CurrentSubtitlesOfCurrentFile ==
    current_file # NoPath =>
        \A i \in DOMAIN current_subtitles :
            current_subtitles[i].text = TrackText(current_file)

\* C2 (cancellation on track switch): when the job of a track resolves after
\* playback was switched to another track, it writes no timeline, and
\* player.current_subtitles never holds captions of a track other than
\* player.current_file.
C2_SwitchedTrackJobWritesNothing ==
    [][/\ WorkerWritesTimeline => current_file = job.path
       /\ CurrentSubtitlesOfCurrentFile']_vars

\* the jobs queued or held by the worker that carry in-flight key k
Pending(k) ==
    LET inQueue(q) == Cardinality({i \in DOMAIN q : q[i] # NoJob /\ JobKey(q[i]) = k})
    IN inQueue(urgent_queue) + inQueue(bg_queue)
       + (IF WorkerBusy /\ JobKey(job) = k THEN 1 ELSE 0)

PendingKeys ==
    {JobKey(j) : j \in (Range(urgent_queue) \cup Range(bg_queue)) \ {NoJob}}
    \cup (IF WorkerBusy THEN {JobKey(job)} ELSE {})

\* C3 (no overlap double-scheduling): for one path and generation, a second
\* _enqueue_chunk_job of the same (start, tier) while the first job is in
\* flight adds nothing: each in-flight key has exactly one job, queued or
\* executing, and no key ever has two.
C3_OneJobPerInflightKey ==
    /\ \A k \in inflight : Pending(k) = 1
    /\ \A k \in PendingKeys : Pending(k) = 1

\* C3's case: the scheduler tick has asked again for window 0 of the playing
\* track (its counter has moved past 0) while the job _on_subtitle_needed
\* queued for it is still waiting on the urgent queue
C3_Witness ==
    /\ current_file # NoPath
    /\ tiny_next_start[current_file] > 0
    /\ <<current_file, 0, "base", current_generation>> \in inflight
    /\ <<TRUE, current_file, 0, current_generation>> \notin DOMAIN runs
    /\ \E i \in DOMAIN urgent_queue :
          JobKey(urgent_queue[i]) = <<current_file, 0, "base", current_generation>>

\* C4 (strict priority): whenever the worker takes a job from the background
\* queue, the urgent queue is empty at that moment; each queue is served in
\* FIFO order.
C4_BackgroundOnlyWhenUrgentEmpty ==
    [][/\ (worker_pc = "get_bg" /\ bg_queue' # bg_queue /\ job' # job)
            => (urgent_queue = <<>> /\ job' = Head(bg_queue))
       /\ (worker_pc = "get_urgent" /\ urgent_queue' # urgent_queue /\ job' # job)
            => job' = Head(urgent_queue)]_vars

\* C5 (end transition exactly once): for one end of playback the playlist
\* advances once: _handle_playback_end starts at most one next track between
\* two ends of playback, whichever of the end-of-stream signal and the two
\* watchdogs fire and in whatever order they are handled.
C5_OneAdvancePerEnd == end_advances <= 1

\* C6 (never past the duration): every chunk job put on a queue for a track of
\* known duration starts before the track's end.
C6_RequestedBeforeDuration ==
    \A k \in requested : DurationSec(k[2]) > 0 => k[3] < DurationSec(k[2])

\* the starts of the draft windows requested for track "S"
DraftStarts == {k[3] : k \in {r \in requested : r[1] /\ r[2] = "S"}}

\* C7 (end-to-end scenario): on the 120-second track with 20 s draft windows, a
\* 5 s lead, upgrades disabled and ticks at 0, 5, ..., 120, the draft windows
\* requested start at 0, 20, 40, 60, 80 and 100 and nowhere else: none at or
\* beyond the track's end, and all six once the last tick has run.
C7_ScenarioDraftStarts ==
    /\ DraftStarts \subseteq {0, 20, 40, 60, 80, 100}
    /\ (mixer_pos = current_duration /\ current_file = "S" /\ TickDone)
            => DraftStarts = {0, 20, 40, 60, 80, 100}

\* C8 (no duplicate windows): for one path and generation the worker extracts
\* and transcribes a draft window of a given start at most once.
C8_DraftWindowRunsOnce ==
    \A k \in DOMAIN runs : k[1] => runs[k] <= 1

\* C9 (silence advances scheduling): a draft window whose ASR call returned no
\* caption is not queued again for that path and generation; the next draft
\* chunk starts after it.
C9_SilentWindowNotRetried ==
    \A k \in silent : k[1] =>
        /\ \A i \in DOMAIN urgent_queue : LogKey(urgent_queue[i]) # k
        /\ (WorkerBusy /\ LogKey(job) = k) => runs[k] <= 1

\* C10 (upgrade supersedes draft): the merge of an upgrade result for the
\* window [a, b) keeps no existing caption whose interval intersects [a, b) and
\* keeps every existing caption that starts at b or later, the caption
\* starting exactly at b included.
C10_UpgradeSupersedesDraft ==
    (worker_pc = "set_cache" /\ job.model = "base") =>
        LET current == merge_base(job.path)
            a == Sec(job.start)
            b == Sec(job.start + job.seconds)
            new_subs == offset_subtitles(result_subs, job.start)
        IN \A i \in DOMAIN current :
              /\ current[i].start_time >= b => current[i] \in Range(merged)
              /\ (/\ current[i].start_time < b /\ current[i].end_time > a
                  /\ current[i] \notin Range(new_subs))
                    => current[i] \notin Range(merged)

\* C11 (merge idempotence): merging the same chunk result for the same window
\* into the timeline a second time leaves the timeline as the first merge made
\* it, also for results with captions that share (start, end) under different
\* text or lie outside the window.
C11_SecondMergeChangesNothing ==
    (worker_pc = "set_cache" /\ runs[LogKey(job)] = 2)
        => merged = subtitle_cache[job.path].subs

\* the captions of a timeline that hold a position
Holding(timeline, position) ==
    {i \in DOMAIN timeline : /\ timeline[i].start_time <= position
                             /\ position <= timeline[i].end_time}

\* C12 (active caption lookup): the caption found for a position is the first
\* one in list order with start_time <= position <= end_time, none if no
\* caption holds the position; on [(0,2,a),(2.5,4,b)] it is a at 1.0, none at
\* 2.2 and b at 3.0.
C12_FirstCaptionHoldingPosition ==
    last_subtitle_valid =>
        LET holding == Holding(current_subtitles, get_position(Cur))
        IN /\ holding = {} => last_subtitle = NoSubtitle
           /\ holding # {} =>
                 \E i \in holding : /\ last_subtitle = current_subtitles[i]
                                     /\ \A k \in holding : i <= k
           /\ current_subtitles = <<Subtitle(1, 0, Sec(2), "a"),
                                     Subtitle(2, Tenths(25), Sec(4), "b")>>
                 => /\ mixer_pos = Tenths(10) => last_subtitle.text = "a"
                    /\ mixer_pos = Tenths(22) => last_subtitle = NoSubtitle
                    /\ mixer_pos = Tenths(30) => last_subtitle.text = "b"

\* C12's case: two captions hold the position and the lookup has returned the
\* one that comes first in the list, which is not the one that starts first
C12_Witness ==
    /\ last_subtitle_valid
    /\ Cardinality(Holding(current_subtitles, get_position(Cur))) = 2
    /\ last_subtitle = current_subtitles[1]
    /\ \E k \in Holding(current_subtitles, get_position(Cur)) :
          current_subtitles[k].start_time < last_subtitle.start_time

\* the step is the UI thread running _play_index(index) with this outcome of
\* player.play
PlayIndexStep(index, outcome) ==
    [Cur' EXCEPT !.end_advances = 0]
        = [play_index(Cur, index, outcome) EXCEPT !.end_advances = 0]

\* C13 (load failure keeps the prior state): while a track plays with chunk
\* jobs in flight, a _play_index whose player.play fails leaves the generation, the in-flight set, the next-chunk counters, the
\* transcribing set, the playlist index and the playing/paused state as they
\* were.
C13_FailedPlayKeepsState ==
    [][\A index \in 0 .. Len(playlist) - 1, outcome \in PlayOutcomes \ {"ok"} :
          (is_playing /\ inflight # {} /\ PlayIndexStep(index, outcome)) =>
              /\ current_generation' = current_generation
              /\ inflight' = inflight
              /\ tiny_next_start' = tiny_next_start
              /\ base_next_start' = base_next_start
              /\ transcribing_paths' = transcribing_paths
              /\ current_index' = current_index
              /\ is_playing' = is_playing
              /\ is_paused' = is_paused]_vars

\* the worker is where a failed extraction or a raised ASR call leaves it
WorkerFailed == worker_pc \in {"extract_failed", "asr_failed"}

\* C14 (the worker loop survives a job's failure): the worker thread ends only
\* when it is told to stop; a failed extraction or ASR call changes neither the
\* playing/paused state nor the stop flag and returns to the loop, after which
\* the worker waits for jobs again and takes the next one queued.
C14_WorkerSurvivesFailure ==
    /\ [](worker_pc = "stopped" => worker_stop)
    /\ [][(WorkerFailed /\ worker_pc' # worker_pc) =>
              /\ worker_pc' = "loop"
              /\ is_playing' = is_playing
              /\ is_paused' = is_paused
              /\ worker_stop' = worker_stop]_vars
    /\ WorkerFailed ~> (worker_pc = "get_urgent")
    /\ (WorkerFailed /\ urgent_queue # <<>>) ~> (worker_pc = "stale_generation")

\* C14's case: the job for window 0 of the playing track failed (it ran, left
\* no caption and was not silent), and the worker now transcribes a later window
C14_Witness ==
    /\ worker_pc = "transcribe"
    /\ job.path = current_file /\ job.start > 0
    /\ <<TRUE, current_file, 0, current_generation>> \in DOMAIN runs
    /\ <<TRUE, current_file, 0, current_generation>> \notin silent
    /\ ~subtitle_cache[current_file].present

\* the in-flight keys whose job has left the queues: the jobs being processed
TakenKeys == {k \in inflight : Pending(k) = 0 \/ (WorkerBusy /\ JobKey(job) = k)}

\* C15 (ASR never concurrent with itself): at most one chunk job has been taken
\* off the queues and not yet marked done, and it is the job the one worker
\* thread holds; every other in-flight job waits on a queue.
C15_OneJobInAsrSection ==
    /\ Cardinality(TakenKeys) <= 1
    /\ \A k \in TakenKeys : WorkerBusy /\ JobKey(job) = k

\* C15's case: the worker is in the ASR call for one job while another job of
\* the same generation waits on the urgent queue
C15_Witness ==
    /\ worker_pc = "transcribe"
    /\ JobKey(job) \in inflight
    /\ \E i \in DOMAIN urgent_queue :
          urgent_queue[i].generation = job.generation /\ urgent_queue[i] # job

\* the urgent draft job of the first window of a path
FirstDraftJob(path, generation) ==
    Job(path, 0, config.subtitle_preview_seconds, "base", generation, TRUE)

\* C16 (first draft job on play): with auto-transcribe-on-play enabled, a
\* _play_index whose player.play succeeds for a track without subtitles leaves
\* exactly the urgent draft job of window [0, subtitle_preview_seconds) on the
\* urgent queue, in flight, tagged with the generation the cancellation made.
C16_PlayEnqueuesFirstDraft ==
    [][\A index \in 0 .. Len(playlist) - 1 :
          (/\ config.auto_transcribe_on_play
           /\ PlayIndexStep(index, "ok")
           /\ current_subtitles' = <<>>) =>
              /\ current_generation' = current_generation + 1
              /\ is_playing' /\ current_file' = playlist[index + 1]
              /\ urgent_queue' =
                     <<FirstDraftJob(playlist[index + 1], current_generation + 1)>>
              /\ JobKey(FirstDraftJob(playlist[index + 1], current_generation + 1))
                     \in inflight']_vars

\* C16's case: a track without subtitles was started over an earlier
\* generation and nothing else has happened since
C16_Witness ==
    /\ config.auto_transcribe_on_play
    /\ is_playing /\ mixer_pos = 0 /\ current_subtitles = <<>>
    /\ current_generation = 2
    /\ urgent_queue = <<FirstDraftJob(current_file, current_generation)>>
    /\ bg_queue = <<>>

\* this step is the slot _handle_playback_end run for a queued signal, with a
\* next track that plays
PlaybackEndStep ==
    /\ end_signal_pending > 0
    /\ end_signal_pending' = end_signal_pending - 1
    /\ ~closing_ui /\ ~loading_folder /\ ~handling_auto_next
    /\ Len(playlist) >= 1
    /\ Cur' = handle_playback_end(Cur, "ok")

\* C17 (auto-advance wraps): a _handle_playback_end at index i of a playlist
\* of n >= 1 playable tracks leaves track (i + 1) mod n playing from its start.
C17_EndAdvancesWithWrap ==
    [][PlaybackEndStep =>
          /\ current_index' = (current_index + 1) % Len(playlist)
          /\ current_file' = playlist[current_index' + 1]
          /\ is_playing' /\ ~is_paused' /\ mixer_busy' /\ mixer_pos' = 0]_vars

\* C17's case: the last row ended and _handle_playback_end started the first
C17_Witness ==
    /\ Len(playlist) > 1
    /\ end_advances = 1
    /\ current_index = 0 /\ current_file = playlist[1]
    /\ is_playing /\ mixer_pos = 0

\* C18 (paused tick is a no-op; pause toggles back): while is_paused holds,
\* _tick_transcription_scheduler changes nothing (no job enqueued, no
\* next-chunk counter moved, no end-of-track transition), whatever the next
\* track would do; and toggle_pause applied to a playing track pauses it, and
\* applied again restores the playing state it had.
C18_TickIdleWhilePaused ==
    /\ is_paused =>
          \A outcome \in PlayOutcomes : tick_transcription_scheduler(Cur, outcome) = Cur
    /\ (is_playing /\ ~is_paused) =>
          /\ toggle_pause(Cur).is_playing /\ toggle_pause(Cur).is_paused
          /\ toggle_pause(toggle_pause(Cur)) = Cur

\* C18's case: a track was paused where the timer of the playing track would
\* have enqueued a job
C18_Witness ==
    /\ is_playing /\ is_paused
    /\ LET resumed == toggle_pause(Cur)
       IN /\ resumed.is_playing /\ ~resumed.is_paused
          /\ tick_transcription_scheduler(resumed, "ok").inflight # inflight

\* no two captions of the timeline share (rounded start, rounded end, text)
UniqueKeys(timeline) ==
    \A i, k \in DOMAIN timeline :
        i # k => dedup_key(timeline[i]) # dedup_key(timeline[k])

\* C19 (caption identity is unique): the result of a _merge_subtitles call on
\* a timeline whose captions have pairwise different (start rounded to ms, end
\* rounded to ms, text) has pairwise different ones too, for every incoming
\* caption list.
C19_MergedKeysDistinct ==
    (worker_pc = "set_cache" /\ UniqueKeys(merge_base(job.path)))
        => UniqueKeys(merged)

\* consecutive captions are in (start_time, end_time) order
Ordered(timeline) ==
    \A i \in 1 .. Len(timeline) - 1 : SortKeyLeq(timeline[i], timeline[i + 1])

\* C20 (cached timelines are ordered): every timeline in the subtitle cache
\* has its consecutive captions c1, c2 in (start_time, end_time) order, after
\* any merges for the path, and so has every timeline the worker is about to
\* store.
C20_CachedTimelineOrdered ==
    /\ \A p \in Tracks : subtitle_cache[p].present => Ordered(subtitle_cache[p].subs)
    /\ worker_pc = "set_cache" => Ordered(merged)

\* C20's case: an ASR result whose captions came out of order was merged and
\* stored, with more than one caption in the cached timeline
C20_Witness ==
    /\ worker_pc = "test_current"
    /\ subtitle_cache[job.path].present /\ subtitle_cache[job.path].subs = merged
    /\ Len(merged) > 1
    /\ Len(result_subs) > 1
    /\ result_subs[1].start_time > result_subs[Len(result_subs)].start_time

\* two captions whose time intervals share more than an end point
Intersect(a, b) == a.start_time < b.end_time /\ b.start_time < a.end_time

\* no two distinct captions of the timeline intersect
NonOverlapping(timeline) ==
    \A i, k \in DOMAIN timeline : i # k => ~Intersect(timeline[i], timeline[k])

\* C21 (cached timeline is non-overlapping): merging a chunk result whose
\* captions do not intersect each other into a timeline whose captions do not
\* intersect each other gives a timeline whose captions do not intersect each
\* other, also when a caption of the result reaches past its window.
C21_MergedNonOverlapping ==
    (/\ worker_pc = "set_cache"
     /\ NonOverlapping(merge_base(job.path))
     /\ NonOverlapping(result_subs))
        => NonOverlapping(merged)

\* the identity tuples of the captions of a timeline
KeysOf(timeline) == {dedup_key(timeline[i]) : i \in DOMAIN timeline}

\* C22 (draft merge removes nothing): when the result of an urgent (draft) job
\* is merged, every caption of the timeline the merge read is still in the
\* merged timeline, up to exact duplicates.
C22_DraftMergeKeepsCaptions ==
    (worker_pc = "set_cache" /\ job.urgent)
        => KeysOf(merge_base(job.path)) \subseteq KeysOf(merged)

\* a draft job of the current generation for the window of `path` starting
\* at b is in flight: queued, or held by the worker and not yet marked done
DraftInFlight(path, b) ==
    /\ <<path, b, "base", current_generation>> \in inflight
    /\ \/ \E i \in DOMAIN urgent_queue :
             JobKey(urgent_queue[i]) = <<path, b, "base", current_generation>>
       \/ /\ WorkerBusy /\ job.urgent
          /\ JobKey(job) = <<path, b, "base", current_generation>>

\* this step is a scheduler tick that takes the upgrade window of the current
\* file starting at b: it moves the upgrade counter from b to the next window
TickTakesUpgrade(b) ==
    /\ Cur' = tick_transcription_scheduler(Cur, "ok")
    /\ worker_pc' = worker_pc
    /\ current_file # NoPath
    /\ b = IF base_next_start[current_file] = Absent
           THEN 0 ELSE base_next_start[current_file]
    /\ base_next_start'[current_file] = b + config.base_chunk_seconds

\* C23 (in-flight dedup distinguishes quality tiers): when the scheduler takes
\* the upgrade window starting at b while a draft job with the same path,
\* start and generation is in flight, the upgrade job is put on the
\* background queue all the same.
C23_UpgradeEnqueuedBesideDraft ==
    [][\A b \in 0 .. 2 * MaxStart :
          (DraftInFlight(current_file, b) /\ TickTakesUpgrade(b)) =>
              \E i \in DOMAIN bg_queue' :
                  bg_queue'[i] = Job(current_file, b, config.base_chunk_seconds,
                                     "base", current_generation, FALSE)]_vars

\* this step puts job j on the background queue
BgEnqueued(j) == bg_queue' = Append(bg_queue, j)

\* C24 (never upgrade ahead of draft): a job is put on the background queue
\* only when upgrades are enabled, the cached coverage (the largest caption
\* end time) has reached upgrade_start_after_seconds, and the end of the job's
\* window is at most one second past the cached coverage; with upgrades
\* disabled the background queue stays empty.
C24_UpgradeOnlyBehindDraft ==
    /\ [](~config.enable_full_transcription => bg_queue = <<>>)
    /\ [][Len(bg_queue') > Len(bg_queue) =>
              \E j \in Range(bg_queue') :
                  /\ BgEnqueued(j)
                  /\ config.enable_full_transcription
                  /\ j.path = current_file /\ ~j.urgent
                  /\ get_cached_coverage(Cur, j.path)
                         >= Sec(config.upgrade_start_after_seconds)
                  /\ Sec(j.start + j.seconds)
                         <= get_cached_coverage(Cur, j.path) + Sec(1)]_vars

\* C24's case: the second upgrade window waits on the background queue, the
\* draft captions reaching its end
C24_Witness ==
    /\ config.enable_full_transcription
    /\ \E i \in DOMAIN bg_queue :
          /\ bg_queue[i].start > 0
          /\ bg_queue[i].generation = current_generation
          /\ Sec(bg_queue[i].start + bg_queue[i].seconds)
                 <= get_cached_coverage(Cur, bg_queue[i].path) + Sec(1)

\* this step ends the handling of a job that was not discarded as stale: the
\* worker returns to the top of its loop from a failed extraction, from a
\* raised ASR call, or from the end of the loop body
JobEnds ==
    /\ worker_pc \in {"mark_done", "extract_failed", "asr_failed"}
    /\ worker_pc' = "loop"

\* C25 (every handled job is reported and marked done): when the worker is
\* through with a job it did not discard as stale, transcribe_done_signal
\* has been emitted for it (success or error) and its in-flight key is gone,
\* after an extraction failure, an ASR failure, zero captions and success.
C25_JobEndsNotifiedAndDone ==
    [][JobEnds => (notified' \in {"done", "error"} /\ JobKey(job) \notin inflight')]_vars

\* C26 (the temporary window file is released on every exit path): once the
\* worker is through with a job and back at the top of its loop, the
\* temporary file _make_preview_wav created for the job no longer exists:
\* after a non-zero ffmpeg exit, an exception raised in the extraction, a raised
\* ASR call, a job turned stale, and success.
C26_TempFileReleased ==
    worker_pc = "loop" => preview_wav = NoPath

\* this step calls on_subtitle_changed: _update_subtitles found the stored
\* caption invalid or different from the one resolved
SubtitleNotified ==
    /\ last_subtitle_valid'
    /\ ~last_subtitle_valid \/ last_subtitle' # last_subtitle

\* C27 (notify only on change): a notification that follows another one for
\* the same playing track carries a caption different from the one notified
\* before (another caption, or a change between a caption and none), also when
\* a chunk merge stored a new timeline in between.
C27_NotifiedCaptionChanges ==
    [][(subtitle_notified /\ SubtitleNotified) => last_subtitle' # last_subtitle]_vars

\* after the step the generation is one higher and nothing of an earlier
\* generation is left: the in-flight keys and the queued jobs are of the new
\* generation, and the transcribing set and the next-chunk counters hold at
\* most the file now current
CancelledAll ==
    /\ current_generation' = current_generation + 1
    /\ \A k \in inflight' : k[4] = current_generation'
    /\ \A j \in Range(urgent_queue') \cup Range(bg_queue') :
          j.generation = current_generation'
    /\ transcribing_paths' \subseteq {current_file'}
    /\ \A p \in Tracks \ {current_file'} :
          tiny_next_start'[p] = Absent /\ base_next_start'[p] = Absent

\* C28 (generation is monotonic, every switch cancels): the generation never
\* decreases; every step that changes the current file, the playlist or the
\* playlist index (a _play_index or an _open_folder) raises it by one; every
\* step that changes it leaves no in-flight key, queued job, transcribing path
\* or next-chunk counter of the generation before, and none at all when it
\* leaves no current file (a folder load).
C28_GenerationMonotonicCancel ==
    /\ [][current_generation' >= current_generation]_vars
    /\ [][(\/ current_file' # current_file
           \/ playlist' # playlist
           \/ current_index' # current_index)
              => current_generation' = current_generation + 1]_vars
    /\ [][current_generation' # current_generation => CancelledAll]_vars
    /\ [][(current_generation' # current_generation /\ current_file' = NoPath) =>
              /\ inflight' = {} /\ transcribing_paths' = {}
              /\ urgent_queue' = <<>> /\ bg_queue' = <<>>]_vars

\* C28's case: a folder was loaded while the worker held a job of the
\* generation before, and nothing of that generation is left in flight
C28_Witness ==
    /\ current_generation = 2
    /\ current_file = NoPath /\ playlist = <<"B">>
    /\ inflight = {}
    /\ worker_pc = "transcribe" /\ job.generation = 1

\* the paths that have a next-chunk counter
CounterPaths ==
    {p \in Tracks : tiny_next_start[p] # Absent \/ base_next_start[p] # Absent}

\* C29 (one active track): the transcribing set and the next-chunk counter
\* maps hold at most one path each, and a path they hold is the player's
\* current file.
C29_OneActiveTrack ==
    /\ Cardinality(transcribing_paths) <= 1
    /\ Cardinality(CounterPaths) <= 1
    /\ transcribing_paths \subseteq {current_file}
    /\ CounterPaths \subseteq {current_file}

\* C29's case: after a track switch the new track is the one transcribed, its
\* draft counter moved on by the scheduler
C29_Witness ==
    /\ current_generation = 2
    /\ transcribing_paths = {current_file}
    /\ tiny_next_start[current_file] > 0
    /\ \E i \in DOMAIN playlist : playlist[i] # current_file

\* the caption lies within [lo, hi]
Within(c, lo, hi) ==
    /\ lo <= c.start_time /\ c.start_time <= c.end_time /\ c.end_time <= hi

\* C30 (captions are clamped to window and track): every caption of a chunk
\* result that the worker is about to store lies within the window
\* [start, start + seconds] of its job and within [0, duration] of the track,
\* whatever offsets the ASR call returned.
C30_StoredCaptionsWithinWindow ==
    worker_pc = "set_cache" =>
        \A c \in Range(offset_subtitles(result_subs, job.start)) \cap Range(merged) :
            /\ Within(c, Sec(job.start), Sec(job.start + job.seconds))
            /\ Within(c, 0, Sec(DurationSec(job.path)))

\* C31 (worker shutdown): once closeEvent has set the stop flag and put the
\* sentinel on both queues, the worker thread leaves its loop and ends,
\* every ASR call in progress returning or raising.
C31_WorkerStopsAfterClose ==
    (closing_ui /\ worker_stop) ~> (worker_pc = "stopped")

\* C31's case: the window was closed while a track was transcribed, the worker
\* took the sentinel off the urgent queue and ended
C31_Witness ==
    /\ closing_ui /\ worker_stop
    /\ worker_pc = "stopped"
    /\ current_file # NoPath
    /\ urgent_queue = <<>> /\ bg_queue = <<NoJob>>

\* this step is a scheduler tick that enqueued: a queue grew within one
\* generation
TickEnqueued ==
    /\ current_generation' = current_generation
    /\ Len(urgent_queue') > Len(urgent_queue) \/ Len(bg_queue') > Len(bg_queue)

\* C32 (draft chunks wait for the lead; one job per tier per tick): a tick
\* puts at most one job on the urgent queue and at most one on the background
\* queue, and the urgent one is the draft window starting at the draft counter
\* b, enqueued only when floor(position + lead) >= b.
C32_DraftAtLeadOnePerTick ==
    [][TickEnqueued =>
          /\ Len(urgent_queue') <= Len(urgent_queue) + 1
          /\ Len(bg_queue') <= Len(bg_queue) + 1
          /\ Len(urgent_queue') > Len(urgent_queue) =>
                LET j == urgent_queue'[Len(urgent_queue')]
                    b == IF tiny_next_start[current_file] = Absent
                         THEN 0 ELSE tiny_next_start[current_file]
                IN /\ urgent_queue' = Append(urgent_queue, j)
                   /\ j = Job(current_file, b, config.subtitle_preview_seconds,
                              "base", current_generation, TRUE)
                   /\ IntSec(get_position(Cur)
                               + Sec(config.subtitle_chunk_lead_seconds)) >= b]_vars

\* C32's case: the draft window after the first was enqueued, position plus
\* lead having reached its start
C32_Witness ==
    \E i \in DOMAIN urgent_queue :
        /\ urgent_queue[i].start > 0
        /\ urgent_queue[i].generation = current_generation
        /\ IntSec(get_position(Cur) + Sec(config.subtitle_chunk_lead_seconds))
               >= urgent_queue[i].start

\* C33 (paused implies playing): in every reachable state is_paused implies
\* is_playing, under every interleaving of the UI thread's pause, unpause and
\* stop with the progress thread's end-of-stream detection.
C33_PausedImpliesPlaying == is_paused => is_playing

\* C34 (no in-flight key leaks): whenever both queues are empty and the
\* worker holds no job, the in-flight set is empty.
C34_NoInflightLeak ==
    (urgent_queue = <<>> /\ bg_queue = <<>> /\ ~WorkerBusy) => inflight = {}

\* C34's case: the worker is back in its loop after a job of the current
\* generation whose ASR call failed, nothing is queued and nothing is in flight
C34_Witness ==
    /\ urgent_queue = <<>> /\ bg_queue = <<>> /\ ~WorkerBusy
    /\ inflight = {}
    /\ notified = "error"
    /\ job # NoJob /\ job.generation = current_generation
    /\ LogKey(job) \in requested

\* the draft counter of a path, 0 where it has no entry
DraftCounter(p) == IF tiny_next_start[p] = Absent THEN 0 ELSE tiny_next_start[p]

\* C35 (draft windows are contiguous): within one generation the draft counter
\* of a path never decreases and moves only by one window length L, from b to
\* b + L, in a step where the draft job of window b was put on the urgent
\* queue or its key was already in flight; the counters are multiples of L.
C35_DraftWindowsContiguous ==
    [][/\ \A p \in Tracks :
             tiny_next_start'[p] # Absent =>
                 tiny_next_start'[p] % config'.subtitle_preview_seconds = 0
       /\ (current_generation' = current_generation /\ config' = config) =>
             \A p \in Tracks :
                 tiny_next_start'[p] # tiny_next_start[p] =>
                     LET b == DraftCounter(p)
                         L == config.subtitle_preview_seconds
                         key == <<p, b, "base", current_generation>>
                         draft == Job(p, b, L, "base", current_generation, TRUE)
                     IN /\ tiny_next_start'[p] = b + L
                        /\ p = current_file
                        /\ key \in inflight'
                        /\ \/ urgent_queue' = Append(urgent_queue, draft)
                           \/ key \in inflight /\ urgent_queue' = urgent_queue]_vars

\* C35's case: the counter of the playing track has passed two windows, both
\* requested in this generation
C35_Witness ==
    /\ current_file # NoPath
    /\ tiny_next_start[current_file] = 2 * config.subtitle_preview_seconds
    /\ \A b \in {0, config.subtitle_preview_seconds} :
          LogKey(Job(current_file, b, config.subtitle_preview_seconds, "base",
                     current_generation, TRUE)) \in requested

\* C36 (no job is started after close): once closeEvent has set the closing
\* and stop flags with the worker holding no job, the worker never completes
\* an extraction, never enters the ASR call and never writes a timeline: a job
\* still on a queue at close time is never started.
C36_NoJobStartedAfterClose ==
    [](  (closing_ui /\ worker_stop /\ ~WorkerBusy)
      => [](worker_pc \notin {"transcribe", "merge", "set_cache",
                              "test_current", "set_current", "emit_done"}))

\* C37 (no scheduling for a track loaded with captions): a track switch that
\* leaves the player with a non-empty timeline leaves the transcribing set, the
\* in-flight set and both queues empty; within a generation the transcribing
\* set does not change, and while the current track is not in it no step
\* enqueues a job, however little of the track the timeline covers.
C37_NoSchedulingForCaptionedTrack ==
    [][/\ (current_generation' # current_generation /\ current_subtitles' # <<>>) =>
             /\ transcribing_paths' = {}
             /\ inflight' = {}
             /\ urgent_queue' = <<>> /\ bg_queue' = <<>>
       /\ current_generation' = current_generation =>
             /\ transcribing_paths' = transcribing_paths
             /\ current_file \notin transcribing_paths =>
                   /\ requested' = requested
                   /\ inflight' \subseteq inflight
                   /\ Len(urgent_queue') <= Len(urgent_queue)
                   /\ Len(bg_queue') <= Len(bg_queue)]_vars

\* C37's case: track A, left while its first draft window alone was cached, is
\* playing again past that window with nothing scheduled for it
C37_Witness ==
    /\ current_file = "A" /\ is_playing /\ ~is_paused
    /\ current_subtitles # <<>>
    /\ current_subtitles = subtitle_cache["A"].subs
    /\ get_cached_coverage(Cur, "A") < Sec(DurationSec("A"))
    /\ mixer_pos >= get_cached_coverage(Cur, "A")
    /\ transcribing_paths = {} /\ inflight = {} /\ requested = {}
    /\ urgent_queue = <<>> /\ bg_queue = <<>>
    /\ current_generation >= 2

\* C38 (an ASR failure leaves the timeline unchanged): the worker's steps for
\* a job whose transcribe_to_subtitles call raises, from the stale test to the
\* raise and the marking done, change neither the cache nor
\* player.current_subtitles, and the last two no scheduling counter; the raise emits the failure notification, and after the
\* marking the job's key is not in flight.
C38_AsrFailureLeavesTimeline ==
    [][/\ (worker_pc \in {"stale_generation", "stale_path", "extract"}
           /\ worker_pc' # worker_pc) =>
             /\ subtitle_cache' = subtitle_cache
             /\ current_subtitles' = current_subtitles
       /\ (worker_pc = "transcribe" /\ worker_pc' = "asr_failed") =>
             /\ notified' = "error"
             /\ subtitle_cache' = subtitle_cache
             /\ current_subtitles' = current_subtitles
             /\ tiny_next_start' = tiny_next_start
             /\ base_next_start' = base_next_start
       /\ (worker_pc = "asr_failed" /\ worker_pc' # "asr_failed") =>
             /\ worker_pc' = "loop"
             /\ JobKey(job) \notin inflight'
             /\ subtitle_cache' = subtitle_cache
             /\ current_subtitles' = current_subtitles
             /\ tiny_next_start' = tiny_next_start
             /\ base_next_start' = base_next_start]_vars

\* C38's case: the job of a later window of the playing track failed after an
\* earlier window was cached; the timeline and the counters are still there
C38_Witness ==
    /\ worker_pc = "loop" /\ notified = "error"
    /\ job # NoJob /\ job.start > 0
    /\ job.path = current_file /\ job.generation = current_generation
    /\ JobKey(job) \notin inflight
    /\ subtitle_cache[current_file].present
    /\ current_subtitles # <<>>
    /\ tiny_next_start[current_file] > job.start

====
